---- MODULE Spec2Model ----
(***************************************************************************)
(* Model of research-bot-notion: the multi-source aggregator               *)
(* (multi_source_search.py), the batch summarizer (llm_translator.py),     *)
(* the query optimizer (query_optimizer.py) and the driver (main.py with   *)
(* notion_client_wrapper.py).                                              *)
(***************************************************************************)
EXTENDS Integers, Sequences, FiniteSets, TLC

\* ------------------------------------------------------------------------
\* Bounds of the model
\* ------------------------------------------------------------------------
MaxSS == 2          \* longest list SemanticScholarSearch.search_papers returns
MaxArxiv == 1       \* longest list search_arxiv_papers returns
MaxDDG == 1         \* longest list DuckDuckGoSearch.search_papers returns
MaxLimit == 2       \* largest small max_results tried (besides the default)
MaxPapers == 2      \* most records in the papers_data of analyze_papers_batch
MaxUpstream == 2    \* most items (results) in one upstream search response
MaxItems == 2       \* most items in the JSON array the AI answers with

\* ------------------------------------------------------------------------
\* Program constants
\* ------------------------------------------------------------------------
DefaultMaxResults == 10

\* semantic_scholar.py line 40: for attempt in range(3).
SSAttempts == 3

\* semantic_scholar.py line 45: time.sleep(2).
SSSleepSeconds == 2

\* retries=3 of _generate_with_retry.
Retries == 3

PrimaryModelName == "gemini-3-flash"

FallbackModelName == "gemini-2.5-pro"

\* The short_summary placeholders (Korean strings in the source, named here by
\* their meaning): line 188 "no summary", line 198 "summary failed", line 210
\* "batch summary failed".
NoSummary == "no summary"

SummaryFailed == "summary failed"

BatchFailed == "batch summary failed"

\* ------------------------------------------------------------------------
\* Titles and records
\* ------------------------------------------------------------------------
\* JSON null in the "title" of a Semantic Scholar item: item.get("title",
\* "Unknown Title") returns None when the key is present with a null value.
NoneTitle == "<None>"

StrTitles == {"A", "a", "B", "C"}

\* A dict key that the record does not have.
NoField == "<absent>"

\* str.lower() on the titles of the model.
lower(t) ==
    CASE t = "A" -> "a"
      [] t = "B" -> "b"
      [] t = "C" -> "c"
      [] t = "Unknown Title" -> "unknown title"
      [] OTHER -> t

\* The dict each collaborator builds for a paper (the keys the aggregator and
\* the driver read: "title" and "source").
SSPaper(t) == [title |-> t, source |-> "Semantic Scholar"]

\* search_arxiv_papers builds no "source" key.
ArxivPaper(t) == [title |-> t, source |-> NoField]

DDGPaper(t) == [title |-> t, source |-> "DuckDuckGo"]

\* All sequences over S of length at most n.
SeqsUpTo(S, n) == UNION {[1..k -> S] : k \in 0..n}

\* What SemanticScholarSearch.search_papers can return (it never raises).
SSResponses == SeqsUpTo({SSPaper(t) : t \in StrTitles \cup {NoneTitle}}, MaxSS)

\* What search_arxiv_papers can return when it does not raise.
ArxivResponses == SeqsUpTo({ArxivPaper(t) : t \in StrTitles}, MaxArxiv)

\* What DuckDuckGoSearch.search_papers can return (it never raises; a result
\* with a null title fails in _is_academic_result and ends the list).
DDGResponses == SeqsUpTo({DDGPaper(t) : t \in StrTitles}, MaxDDG)

\* max_results values: a negative one, the small ones, and the default.
Limits == (-1..MaxLimit) \cup {DefaultMaxResults}

\* The query argument: one string, or a dict of per-source strings (a key it
\* lacks is NoField).
StrQuery(q) ==
    [is_str |-> TRUE, s |-> q,
     d |-> [semantic_scholar |-> NoField, arxiv |-> NoField, duckduckgo |-> NoField]]

DictQuery(qs, qa, qd) ==
    [is_str |-> FALSE, s |-> "",
     d |-> [semantic_scholar |-> qs, arxiv |-> qa, duckduckgo |-> qd]]

QueryArgs ==
    {StrQuery("q1"), DictQuery("qs", "qa", "qd"), DictQuery("qs", NoField, "qd")}

\* Lines 19-26: the queries dict.
Queries(q) ==
    IF q.is_str
    THEN [semantic_scholar |-> q.s, arxiv |-> q.s, duckduckgo |-> q.s]
    ELSE q.d

\* queries.get(key, '').
QueryFor(q, key) == IF Queries(q)[key] = NoField THEN "" ELSE Queries(q)[key]

\* ------------------------------------------------------------------------
\* search_all_sources: helpers
\* ------------------------------------------------------------------------
\* MergeLoop with the titles compared as written (no .lower()).
RECURSIVE MergeLoopNoLower(_, _, _)
MergeLoopNoLower(all, seen, papers) ==
    IF papers = << >> THEN [all |-> all, seen |-> seen, raised |-> FALSE]
    ELSE LET paper == Head(papers) IN
         IF paper.title = NoneTitle
         THEN [all |-> all, seen |-> seen, raised |-> TRUE]
         ELSE IF paper.title \notin seen
              THEN MergeLoopNoLower(Append(all, paper), seen \cup {paper.title},
                                    Tail(papers))
              ELSE MergeLoopNoLower(all, seen, Tail(papers))

\* MergeLoop with each new paper put in front of all_papers.
RECURSIVE MergeLoopPrepend(_, _, _)
MergeLoopPrepend(all, seen, papers) ==
    IF papers = << >> THEN [all |-> all, seen |-> seen, raised |-> FALSE]
    ELSE LET paper == Head(papers) IN
         IF paper.title = NoneTitle
         THEN [all |-> all, seen |-> seen, raised |-> TRUE]
         ELSE LET title_lower == lower(paper.title) IN
              IF title_lower \notin seen
              THEN MergeLoopPrepend(<<paper>> \o all, seen \cup {title_lower},
                                    Tail(papers))
              ELSE MergeLoopPrepend(all, seen, Tail(papers))

\* MergeLoop that keeps the last paper of a title instead of the first.
RECURSIVE MergeLoopLastWins(_, _, _)
MergeLoopLastWins(all, seen, papers) ==
    IF papers = << >> THEN [all |-> all, seen |-> seen, raised |-> FALSE]
    ELSE LET paper == Head(papers) IN
         IF paper.title = NoneTitle
         THEN [all |-> all, seen |-> seen, raised |-> TRUE]
         ELSE LET title_lower == lower(paper.title) IN
              IF title_lower \notin seen
              THEN MergeLoopLastWins(Append(all, paper), seen \cup {title_lower},
                                     Tail(papers))
              ELSE MergeLoopLastWins(
                      [k \in DOMAIN all |->
                          IF lower(all[k].title) = title_lower THEN paper ELSE all[k]],
                      seen, Tail(papers))

\* MergeLoop that records the title as written in seen_titles.
RECURSIVE MergeLoopSeenRaw(_, _, _)
MergeLoopSeenRaw(all, seen, papers) ==
    IF papers = << >> THEN [all |-> all, seen |-> seen, raised |-> FALSE]
    ELSE LET paper == Head(papers) IN
         IF paper.title = NoneTitle
         THEN [all |-> all, seen |-> seen, raised |-> TRUE]
         ELSE LET title_lower == lower(paper.title) IN
              IF title_lower \notin seen
              THEN MergeLoopSeenRaw(Append(all, paper), seen \cup {paper.title},
                                    Tail(papers))
              ELSE MergeLoopSeenRaw(all, seen, Tail(papers))

\* The dedup loop "for paper in papers: ..." run on (all_papers, seen_titles).
\* paper["title"].lower() raises AttributeError on a None title, which ends
\* the loop and the function.
RECURSIVE MergeLoop(_, _, _)
MergeLoop(all, seen, papers) ==
    IF papers = << >> THEN [all |-> all, seen |-> seen, raised |-> FALSE]
    ELSE LET paper == Head(papers) IN
         IF paper.title = NoneTitle
         THEN [all |-> all, seen |-> seen, raised |-> TRUE]
         ELSE LET title_lower == lower(paper.title) IN
              IF title_lower \notin seen
              THEN MergeLoop(Append(all, paper), seen \cup {title_lower}, Tail(papers))
              ELSE MergeLoop(all, seen, Tail(papers))

\* s[:n + 1]: the slice one record too long.
SliceToOffByOne(s, n) ==
    IF n >= 0
    THEN SubSeq(s, 1, IF n + 1 < Len(s) THEN n + 1 ELSE Len(s))
    ELSE SubSeq(s, 1, IF Len(s) + n > 0 THEN Len(s) + n ELSE 0)

\* s[-n:]: the last n records instead of the first.
SliceFromEnd(s, n) ==
    IF n >= 0
    THEN SubSeq(s, (IF n < Len(s) THEN Len(s) - n ELSE 0) + 1, Len(s))
    ELSE SubSeq(s, 1, IF Len(s) + n > 0 THEN Len(s) + n ELSE 0)

\* Python's s[:n].
SliceTo(s, n) ==
    IF n >= 0
    THEN SubSeq(s, 1, IF n < Len(s) THEN n ELSE Len(s))
    ELSE SubSeq(s, 1, IF Len(s) + n > 0 THEN Len(s) + n ELSE 0)

\* ------------------------------------------------------------------------
\* GeminiTranslator.analyze_papers_batch: helpers
\* ------------------------------------------------------------------------
\* papers_data: only its length decides what the function does (the titles,
\* abstracts and authors go into the prompt text).
BatchInputs == {[k \in 1..n |-> [title |-> "A"]] : n \in 0..MaxPapers}

\* The three summary keys of one item of the AI's array (NoField: key absent).
ItemPayloads ==
    { [short_summary |-> NoField, detailed_summary |-> NoField, architecture |-> NoField],
      [short_summary |-> "s1", detailed_summary |-> "d1", architecture |-> "a1"],
      [short_summary |-> "s2", detailed_summary |-> NoField, architecture |-> NoField] }

\* One item of the array.  kind "nondict": a number, string, null or list (no
\* .get).  index_kind says what item.get("paper_index", 0) finds: "int" (the
\* value is paper_index), "absent" (the default 0) or "bad" (a string, null or
\* fractional number, on which "- 1" or the list index raises TypeError).
NonDictItem ==
    [kind |-> "nondict", index_kind |-> "absent", paper_index |-> 0,
     short_summary |-> NoField, detailed_summary |-> NoField, architecture |-> NoField]

DictItem(ik, n, p) ==
    [kind |-> "dict", index_kind |-> ik, paper_index |-> n,
     short_summary |-> p.short_summary, detailed_summary |-> p.detailed_summary,
     architecture |-> p.architecture]

Items ==
    {NonDictItem}
    \cup {DictItem("int", n, p) : n \in 0..(MaxPapers + 1), p \in ItemPayloads}
    \cup {DictItem(ik, 0, p) : ik \in {"absent", "bad"}, p \in ItemPayloads}

\* A response text: empty (what _generate_with_retry returns on failure), or
\* text that is or is not JSON, possibly wrapped in a ```json fence.
\* json_type "none": not parseable; "array": a JSON array of items; "other":
\* any other JSON value (object, number, string, null).
Text(e, f, t, its) == [empty |-> e, fenced |-> f, json_type |-> t, items |-> its]

EmptyText == Text(TRUE, FALSE, "none", << >>)

Texts ==
    {Text(FALSE, f, t, << >>) : f \in BOOLEAN, t \in {"none", "other"}}
    \cup {Text(FALSE, f, "array", its) : f \in BOOLEAN, its \in SeqsUpTo(Items, MaxItems)}

\* re.sub(r'```json\s*|\s*```', '', response_text).strip() without effect.
CleanTextKeepFence(text) == text

\* Line 177: re.sub(r'```json\s*|\s*```', '', response_text).strip().
CleanText(text) == [text EXCEPT !.fenced = FALSE]

\* Line 178: json.loads; ok = FALSE stands for json.JSONDecodeError.
JsonLoads(text) ==
    IF text.empty \/ text.fenced \/ text.json_type = "none"
    THEN [ok |-> FALSE, type |-> "none", items |-> << >>]
    ELSE [ok |-> TRUE, type |-> text.json_type, items |-> text.items]

\* dict.get(key, default) on a summary key of an item.
GetOr(v, default) == IF v = NoField THEN default ELSE v

\* Lines 197-201: the summary dict built from an item.
SummaryOf(item) ==
    [short_summary |-> GetOr(item.short_summary, SummaryFailed),
     detailed_summary |-> GetOr(item.detailed_summary, ""),
     architecture |-> GetOr(item.architecture, "")]

\* Line 187-191: the placeholder every position starts with.
PlaceholderSummary ==
    [short_summary |-> NoSummary, detailed_summary |-> "", architecture |-> ""]

\* Lines 209-213: the placeholder of a failed batch.
BatchFailedSummary ==
    [short_summary |-> BatchFailed, detailed_summary |-> "", architecture |-> ""]

\* FillResults with idx = paper_index (the "- 1" forgotten).
RECURSIVE FillResultsNoShift(_, _)
FillResultsNoShift(results, data) ==
    IF data = << >> THEN [raised |-> FALSE, results |-> results]
    ELSE LET item == Head(data) IN
         IF item.kind # "dict" \/ item.index_kind = "bad"
         THEN [raised |-> TRUE, results |-> results]
         ELSE LET idx == IF item.index_kind = "absent" THEN 0 ELSE item.paper_index
              IN IF 0 <= idx /\ idx < Len(results)
                 THEN FillResultsNoShift([results EXCEPT ![idx + 1] = SummaryOf(item)],
                                         Tail(data))
                 ELSE FillResultsNoShift(results, Tail(data))

\* Lines 194-201: "for item in data: ..." on results.  raised = TRUE stands
\* for the AttributeError of a non-dict item or the TypeError of a bad index.
RECURSIVE FillResults(_, _)
FillResults(results, data) ==
    IF data = << >> THEN [raised |-> FALSE, results |-> results]
    ELSE LET item == Head(data) IN
         IF item.kind # "dict" \/ item.index_kind = "bad"
         THEN [raised |-> TRUE, results |-> results]
         ELSE LET idx == (IF item.index_kind = "absent" THEN 0 ELSE item.paper_index) - 1
              IN IF 0 <= idx /\ idx < Len(results)
                 THEN FillResults([results EXCEPT ![idx + 1] = SummaryOf(item)],
                                  Tail(data))
                 ELSE FillResults(results, Tail(data))

\* ParseBatch whose except branch returns an empty list.
ParseBatchEmptyOnFailure(pd, text) ==
    LET data == JsonLoads(CleanText(text))
        init == [k \in DOMAIN pd |-> PlaceholderSummary]
        fill == FillResults(init, data.items)
    IN  IF data.ok /\ data.type = "array" /\ ~fill.raised
        THEN [raised |-> FALSE, results |-> fill.results]
        ELSE [raised |-> FALSE, results |-> << >>]

\* Lines 175-213: parse the response and map it back to the papers.  Every
\* exception of the try block is caught by "except Exception" (line 205).
ParseBatch(pd, text) ==
    LET data == JsonLoads(CleanText(text))
        init == [k \in DOMAIN pd |-> PlaceholderSummary]
        fill == FillResults(init, data.items)
    IN  IF data.ok /\ data.type = "array" /\ ~fill.raised
        THEN [raised |-> FALSE, results |-> fill.results]
        ELSE [raised |-> FALSE, results |-> [k \in DOMAIN pd |-> BatchFailedSummary]]

\* ------------------------------------------------------------------------
\* QueryOptimizer.optimize_query: helpers
\* ------------------------------------------------------------------------
UserQueries == {"q1", "q2", "q3"}

SourceKeys == {"semantic_scholar", "arxiv", "duckduckgo"}

\* The JSON objects the model may answer with: any subset of the three source
\* keys and "original", each with an optimized query string.
JsonObjects == UNION {[K -> {"opt"}] : K \in SUBSET (SourceKeys \cup {"original"})}

\* A response of the model: json_type "none" (not JSON), "other" (a JSON value
\* that is no object: array, string, number, null) or "object"; fenced: the
\* text starts with a ``` fence.
OptText(f, t, o) == [fenced |-> f, json_type |-> t, obj |-> o]

OptTexts ==
    {OptText(f, t, << >>) : f \in BOOLEAN, t \in {"none", "other"}}
    \cup {OptText(f, "object", o) : f \in BOOLEAN, o \in JsonObjects}

\* Lines 64-76: inside a fence, keep the lines from the first one that starts
\* with "{" to the first one that ends with "}"; nothing is kept when no line
\* starts with "{".
StripFence(text) ==
    IF ~text.fenced THEN text
    ELSE IF text.json_type = "object" THEN [text EXCEPT !.fenced = FALSE]
    ELSE OptText(FALSE, "none", << >>)

\* Lines 90-95 and 98-104: the original query for every engine.
FallbackQueries(user_query) ==
    [k \in SourceKeys \cup {"original"} |-> user_query]

\* Line 82: optimized['original'] = user_query on a dict.
WithOriginal(o, user_query) ==
    [k \in DOMAIN o \cup {"original"} |-> IF k = "original" THEN user_query ELSE o[k]]

\* Lines 59-104 after the request returned result_text.  json.loads raises
\* JSONDecodeError on text that is not JSON; the item assignment raises
\* TypeError on a JSON value that is no object; both handlers return the
\* fallback.
OptimizeText(user_query, text) ==
    LET t == StripFence(text) IN
    IF t.json_type = "object" THEN WithOriginal(t.obj, user_query)
    ELSE FallbackQueries(user_query)

\* ------------------------------------------------------------------------
\* SemanticScholarSearch.search_papers: helpers
\* ------------------------------------------------------------------------
\* The "title" of an upstream item: absent, JSON null, empty, or a string.
UpstreamTitles == {NoField, NoneTitle, "", "A", "B"}

\* An item of the "data" array of a Semantic Scholar response.  bad: "venue"
\* is empty and "publicationVenue" is null, so line 58 calls .get on None.
SSItem(t, bad) == [title |-> t, bad |-> bad]

SSItems == {SSItem(t, FALSE) : t \in UpstreamTitles} \cup {SSItem(NoField, TRUE)}

SSItemSeqs == SeqsUpTo(SSItems, MaxUpstream)

\* Line 54: item.get("title", "Unknown Title").
SSTitleOf(item) == IF item.title = NoField THEN "Unknown Title" ELSE item.title

\* Lines 51-78: the loop over the items; an item that makes line 58 raise
\* ends it with the records appended so far.
RECURSIVE SSParseItems(_, _)
SSParseItems(items, built) ==
    IF items = << >> THEN [papers |-> built, raised |-> FALSE]
    ELSE IF Head(items).bad THEN [papers |-> built, raised |-> TRUE]
    ELSE SSParseItems(Tail(items), Append(built, SSPaper(SSTitleOf(Head(items)))))

\* The loop of line 40 with one more iteration.
SSLoopContinuesOneMore(a) == a < SSAttempts

\* Lines 40 and 46: after "continue" in iteration a the loop runs again
\* while range(3) has a next value.
SSLoopContinues(a) == a + 1 < SSAttempts

\* An except clause that goes on to the next iteration.
SSAfterRaiseRetry(a) == IF a + 1 < SSAttempts THEN "requesting" ELSE "returned"

\* Lines 82-84: the except clause breaks out of the loop.
SSAfterRaise(a) == "returned"

\* ------------------------------------------------------------------------
\* DuckDuckGoSearch.search_papers: helpers
\* ------------------------------------------------------------------------
\* A result of ddgs.text.  academic: its href names an academic domain or a
\* PDF (no title of the model holds an academic keyword).
DDGResult(t, academic) == [title |-> t, academic |-> academic]

\* Line 97: result.get('title', 'Unknown Title').
DDGTitleOf(result) == IF result.title = NoField THEN "Unknown Title" ELSE result.title

\* Lines 29-41: the loop over the results.  A null title makes line 54
\* (.lower() in _is_academic_result) raise.
RECURSIVE DDGLoop(_, _, _)
DDGLoop(results, built, mr) ==
    IF results = << >> THEN [papers |-> built, raised |-> FALSE]
    ELSE LET result == Head(results) IN
         IF result.title = NoneTitle THEN [papers |-> built, raised |-> TRUE]
         ELSE IF ~result.academic THEN DDGLoop(Tail(results), built, mr)
         ELSE LET ps == Append(built, DDGPaper(DDGTitleOf(result))) IN
              IF Len(ps) >= mr THEN [papers |-> ps, raised |-> FALSE]
              ELSE DDGLoop(Tail(results), ps, mr)

\* ------------------------------------------------------------------------
\* State
\* ------------------------------------------------------------------------
VARIABLES
    net,             \* the requests sent so far, in order
    a_pc,            \* position in search_all_sources
    query,           \* its query argument
    max_results,     \* its max_results argument
    a_calls,         \* the collaborator calls it made, with the query passed
    ss_papers,       \* its local ss_papers
    arxiv_papers,    \* its local arxiv_papers
    ddg_papers,      \* its local ddg_papers
    all_papers,      \* its local all_papers
    seen_titles,     \* its local seen_titles
    a_result,        \* the list it returned
    b_pc,            \* position in analyze_papers_batch
    papers_data,     \* its papers_data argument
    attempt,         \* loop variable i of _generate_with_retry
    outcomes,        \* how each generate_content call of it ended, in order
    response_text,   \* its local response_text
    last_used_model, \* GeminiTranslator.last_used_model
    b_results,       \* the list it returned
    b_used_model,    \* the model name it returned
    o_pc,            \* position in optimize_query
    user_query,      \* its user_query argument
    o_response,      \* what generate_content answered (json_type "raise": it raised)
    o_result,        \* the dict it returned
    m_pc,            \* position in main
    env,             \* which environment variables are set (non-empty)
    translator,      \* main's translator is not None
    papers,          \* main's local papers
    summaries,       \* main's local summaries
    used_model,      \* main's local used_model
    save_i,          \* number of passes of the save loop done
    attempts,        \* the add_paper calls made, in order
    failed,           \* the indices whose add_paper raised
    s_pc,            \* position in SemanticScholarSearch.search_papers
    s_attempt,       \* its loop variable attempt
    s_papers,        \* its local papers
    s_sleeps,        \* the time.sleep calls it made, in seconds
    s_failed,        \* what raised inside it: "none", "request" or "parse"
    d_pc,            \* position in DuckDuckGoSearch.search_papers
    d_papers,        \* its local papers
    d_failed         \* whether something raised inside it

aggVars == <<a_pc, query, max_results, a_calls, ss_papers, arxiv_papers, ddg_papers,
             all_papers, seen_titles, a_result>>

batchVars == <<b_pc, papers_data, attempt, outcomes, response_text, last_used_model,
               b_results, b_used_model>>

optVars == <<o_pc, user_query, o_response, o_result>>

mainVars == <<m_pc, env, translator, papers, summaries, used_model, save_i,
              attempts, failed>>

srcVars == <<s_pc, s_attempt, s_papers, s_sleeps, s_failed, d_pc, d_papers, d_failed>>

vars == <<net, aggVars, batchVars, optVars, mainVars, srcVars>>

\* ------------------------------------------------------------------------
\* search_all_sources
\* ------------------------------------------------------------------------
\* The locals of search_all_sources before its first statement.
AggIdle(pc) ==
    /\ a_pc = pc
    /\ a_calls = << >>
    /\ ss_papers = << >>
    /\ arxiv_papers = << >>
    /\ ddg_papers = << >>
    /\ all_papers = << >>
    /\ seen_titles = {}
    /\ a_result = << >>

\* The locals of the two search_papers methods before their first statement.
SrcIdle(spc, dpc) ==
    /\ s_pc = spc
    /\ s_attempt = 0
    /\ s_papers = << >>
    /\ s_sleeps = << >>
    /\ s_failed = "none"
    /\ d_pc = dpc
    /\ d_papers = << >>
    /\ d_failed = FALSE

\* No call of analyze_papers_batch in progress.
BatchIdle(pc) ==
    /\ b_pc = pc
    /\ papers_data = << >>
    /\ attempt = 0
    /\ outcomes = << >>
    /\ response_text = EmptyText
    /\ last_used_model = PrimaryModelName
    /\ b_results = << >>
    /\ b_used_model = ""

\* No call of optimize_query in progress.
OptIdle(pc) ==
    /\ o_pc = pc
    /\ user_query = ""
    /\ o_response = OptText(FALSE, "unset", << >>)
    /\ o_result = << >>

\* main not running.
MainIdle(pc) ==
    /\ m_pc = pc
    /\ env = [NOTION_PAGE_ID |-> FALSE, NOTION_DB_ID |-> FALSE,
              NOTION_API_KEY |-> FALSE, GEMINI_API_KEY |-> FALSE]
    /\ translator = FALSE
    /\ papers = << >>
    /\ summaries = << >>
    /\ used_model = "none"
    /\ save_i = 0
    /\ attempts = << >>
    /\ failed = {}

AggInit ==
    /\ net = << >>
    /\ max_results \in Limits
    /\ query \in QueryArgs
    /\ (query.is_str \/ max_results = DefaultMaxResults)
    /\ AggIdle("start")
    /\ BatchIdle("idle")
    /\ OptIdle("idle")
    /\ MainIdle("idle")
    /\ SrcIdle("idle", "idle")

\* Lines 28-40: query Semantic Scholar and merge its papers.
AggSearchSemanticScholar(Resps) ==
    /\ a_pc = "start"
    /\ net' = Append(net, "search:semantic_scholar")
    /\ a_calls' = Append(a_calls, [source |-> "semantic_scholar", query |-> QueryFor(query, "semantic_scholar")])
    /\ \E resp \in Resps :
         LET m == MergeLoop(all_papers, seen_titles, resp) IN
         /\ ss_papers' = resp
         /\ all_papers' = m.all
         /\ seen_titles' = m.seen
         /\ a_pc' = IF m.raised THEN "raised_title" ELSE "ss_merged"
    /\ UNCHANGED <<query, max_results, arxiv_papers, ddg_papers, a_result, batchVars, optVars, srcVars, mainVars>>

\* Lines 42-53: query arXiv and merge its papers.  search_arxiv_papers has no
\* handler of its own and the call site has none either: what it raises
\* leaves search_all_sources.
AggSearchArxiv(Resps) ==
    /\ a_pc = "ss_merged"
    /\ net' = Append(net, "search:arxiv")
    /\ a_calls' = Append(a_calls, [source |-> "arxiv", query |-> QueryFor(query, "arxiv")])
    /\ \/ \E resp \in Resps :
            LET m == MergeLoop(all_papers, seen_titles, resp) IN
            /\ arxiv_papers' = resp
            /\ all_papers' = m.all
            /\ seen_titles' = m.seen
            /\ a_pc' = IF m.raised THEN "raised_title" ELSE "arxiv_merged"
       \/ /\ a_pc' = "raised_arxiv"
          /\ UNCHANGED <<arxiv_papers, all_papers, seen_titles>>
    /\ UNCHANGED <<query, max_results, ss_papers, ddg_papers, a_result, batchVars, optVars, srcVars, mainVars>>

\* Lines 55-67: query DuckDuckGo and merge its papers.
AggSearchDuckDuckGo(Resps) ==
    /\ a_pc = "arxiv_merged"
    /\ net' = Append(net, "search:duckduckgo")
    /\ a_calls' = Append(a_calls, [source |-> "duckduckgo", query |-> QueryFor(query, "duckduckgo")])
    /\ \E resp \in Resps :
         LET m == MergeLoop(all_papers, seen_titles, resp) IN
         /\ ddg_papers' = resp
         /\ all_papers' = m.all
         /\ seen_titles' = m.seen
         /\ a_pc' = IF m.raised THEN "raised_title" ELSE "ddg_merged"
    /\ UNCHANGED <<query, max_results, ss_papers, arxiv_papers, a_result, batchVars, optVars, srcVars, mainVars>>

\* Line 70: return all_papers[:max_results].
AggReturn ==
    /\ a_pc = "ddg_merged"
    /\ a_result' = SliceTo(all_papers, max_results)
    /\ a_pc' = "returned"
    /\ UNCHANGED <<net, query, max_results, a_calls, ss_papers, arxiv_papers, ddg_papers,
                   all_papers, seen_titles, batchVars, optVars, srcVars, mainVars>>

AggNext ==
    \/ AggSearchSemanticScholar(SSResponses)
    \/ AggSearchArxiv(ArxivResponses)
    \/ AggSearchDuckDuckGo(DDGResponses)
    \/ AggReturn

SpecAgg == AggInit /\ [][AggNext]_vars

\* ------------------------------------------------------------------------
\* GeminiTranslator.analyze_papers_batch and _generate_with_retry
\* ------------------------------------------------------------------------
BatchInit ==
    /\ net = << >>
    /\ max_results = DefaultMaxResults
    /\ query = StrQuery("q1")
    /\ AggIdle("idle")
    /\ OptIdle("idle")
    /\ MainIdle("idle")
    /\ SrcIdle("idle", "idle")
    /\ b_pc = "start"
    /\ papers_data \in BatchInputs
    /\ attempt = 0
    /\ outcomes = << >>
    /\ response_text = EmptyText
    /\ last_used_model \in {PrimaryModelName, FallbackModelName}
    /\ b_results = << >>
    /\ b_used_model = ""

\* Lines 126-166: return at once on empty input, else build the prompt and
\* enter _generate_with_retry.
BatchStart ==
    /\ b_pc = "start"
    /\ \/ /\ papers_data = << >>
          /\ b_results' = << >>
          /\ b_used_model' = "none"
          /\ b_pc' = "returned"
       \/ /\ papers_data # << >>
          /\ b_pc' = "primary"
          /\ UNCHANGED <<b_results, b_used_model>>
    /\ attempt' = 0
    /\ UNCHANGED <<net, aggVars, optVars, srcVars, mainVars, papers_data, outcomes, response_text,
                   last_used_model>>

\* An except clause that goes on to the fallback model whatever the error.
AfterOtherErrorFallback == "fallback"

\* Lines 47-49: an error that is not a quota error returns "" at once, to
\* line 168 of analyze_papers_batch.
AfterOtherError == "parse"

\* Lines 27-49: one pass of the primary-model loop.  The request answers with
\* a text, fails with a quota error (retried, then the fallback) or fails with
\* another error (the empty string is returned).
GenPrimaryAttempt(TextSet) ==
    /\ b_pc = "primary"
    /\ net' = Append(net, "ai:primary")
    /\ \/ \E text \in TextSet :
            /\ response_text' = text
            /\ last_used_model' = PrimaryModelName
            /\ b_pc' = "parse"
            /\ outcomes' = Append(outcomes, [model |-> "primary", result |-> "ok"])
            /\ UNCHANGED attempt
       \/ /\ IF attempt < Retries - 1
             THEN attempt' = attempt + 1 /\ b_pc' = "primary"
             ELSE attempt' = attempt /\ b_pc' = "fallback"
          /\ outcomes' = Append(outcomes, [model |-> "primary", result |-> "quota"])
          /\ UNCHANGED <<response_text, last_used_model>>
       \/ /\ response_text' = EmptyText
          /\ b_pc' = AfterOtherError
          /\ outcomes' = Append(outcomes, [model |-> "primary", result |-> "error"])
          /\ UNCHANGED <<attempt, last_used_model>>
    /\ UNCHANGED <<aggVars, optVars, srcVars, mainVars, papers_data, b_results, b_used_model>>

\* Lines 51-60: the fallback-model request.
GenFallback(TextSet) ==
    /\ b_pc = "fallback"
    /\ net' = Append(net, "ai:fallback")
    /\ \/ \E text \in TextSet :
            /\ response_text' = text
            /\ last_used_model' = FallbackModelName
            /\ outcomes' = Append(outcomes, [model |-> "fallback", result |-> "ok"])
       \/ /\ response_text' = EmptyText
          /\ outcomes' = Append(outcomes, [model |-> "fallback", result |-> "error"])
          /\ UNCHANGED last_used_model
    /\ b_pc' = "parse"
    /\ UNCHANGED <<aggVars, optVars, srcVars, mainVars, papers_data, attempt, b_results, b_used_model>>

\* Lines 168-213: used_model = self.last_used_model, then parse and map.
BatchParse ==
    /\ b_pc = "parse"
    /\ LET r == ParseBatch(papers_data, response_text) IN
         /\ b_results' = r.results
         /\ b_pc' = IF r.raised THEN "raised" ELSE "returned"
    /\ b_used_model' = last_used_model
    /\ UNCHANGED <<net, aggVars, optVars, srcVars, mainVars, papers_data, attempt, outcomes, response_text,
                   last_used_model>>

BatchNext ==
    \/ BatchStart
    \/ GenPrimaryAttempt(Texts)
    \/ GenFallback(Texts)
    \/ BatchParse

SpecBatch == BatchInit /\ [][BatchNext]_vars

\* The response texts tried when the request protocol is what is checked.
GenTexts ==
    { Text(FALSE, FALSE, "none", << >>),
      Text(FALSE, TRUE, "array", << >>),
      Text(FALSE, FALSE, "other", << >>),
      Text(FALSE, FALSE, "array", << >>),
      Text(FALSE, FALSE, "array", <<NonDictItem>>) }

GenNext ==
    \/ BatchStart
    \/ GenPrimaryAttempt(GenTexts)
    \/ GenFallback(GenTexts)
    \/ BatchParse

\* analyze_papers_batch runs on once called: it waits only for
\* generate_content and for time.sleep.
SpecGen == BatchInit /\ [][GenNext]_vars /\ WF_vars(GenNext)

\* ------------------------------------------------------------------------
\* QueryOptimizer.optimize_query
\* ------------------------------------------------------------------------
OptInit ==
    /\ net = << >>
    /\ max_results = DefaultMaxResults
    /\ query = StrQuery("q1")
    /\ AggIdle("idle")
    /\ BatchIdle("idle")
    /\ MainIdle("idle")
    /\ SrcIdle("idle", "idle")
    /\ o_pc = "start"
    /\ user_query \in UserQueries
    /\ o_response = OptText(FALSE, "unset", << >>)
    /\ o_result = << >>

\* Lines 59-104: one generate_content request, then parse; every exception of
\* the try block is caught and answered with the fallback.
OptimizeQuery ==
    /\ o_pc = "start"
    /\ net' = Append(net, "ai:query_optimizer")
    /\ \/ /\ o_response' = OptText(FALSE, "raise", << >>)
          /\ o_result' = FallbackQueries(user_query)
       \/ \E text \in OptTexts :
            /\ o_response' = text
            /\ o_result' = OptimizeText(user_query, text)
    /\ o_pc' = "returned"
    /\ UNCHANGED <<aggVars, batchVars, mainVars, srcVars, user_query>>

OptNext == OptimizeQuery

SpecOpt == OptInit /\ [][OptNext]_vars

\* ------------------------------------------------------------------------
\* main
\* ------------------------------------------------------------------------
Envs == [NOTION_PAGE_ID : BOOLEAN, NOTION_DB_ID : BOOLEAN,
         NOTION_API_KEY : BOOLEAN, GEMINI_API_KEY : BOOLEAN]

\* The collaborator answers tried in runs of main.
MainSSResponses ==
    { << >>, <<SSPaper("A")>>, <<SSPaper("A"), SSPaper("B")>>, <<SSPaper(NoneTitle)>> }

MainArxivResponses == { << >>, <<ArxivPaper("a")>>, <<ArxivPaper("B")>> }

MainDDGResponses == { << >>, <<DDGPaper("C")>> }

\* The AI answers tried in runs of main: not JSON; an array with a full
\* summary of paper 1; an array with a summary of paper 2 and a malformed item.
MainTexts ==
    { Text(FALSE, FALSE, "none", << >>),
      Text(FALSE, TRUE, "array",
           <<DictItem("int", 1, [short_summary |-> "s1", detailed_summary |-> "d1",
                                 architecture |-> "a1"])>>),
      Text(FALSE, FALSE, "array",
           <<DictItem("int", 2, [short_summary |-> "s2", detailed_summary |-> NoField,
                                 architecture |-> NoField]),
             NonDictItem>>) }

\* Lines 85 and 87: one placeholder summary per paper.
PlaceholderSummaries(ps) == [k \in DOMAIN ps |-> PlaceholderSummary]

\* p.get('source', 'Unknown').
SourceOf(p) == IF p.source = NoField THEN "Unknown" ELSE p.source

MainInit ==
    /\ net = << >>
    /\ max_results \in Limits
    /\ query = StrQuery("q1")
    /\ AggIdle("idle")
    /\ BatchIdle("idle")
    /\ OptIdle("idle")
    /\ SrcIdle("idle", "idle")
    /\ m_pc = "start"
    /\ env \in Envs
    /\ translator = FALSE
    /\ papers = << >>
    /\ summaries = << >>
    /\ used_model = "none"
    /\ save_i = 0
    /\ attempts = << >>
    /\ failed = {}

\* MainConfig with NotionManager() not checking NOTION_API_KEY.
MainConfigNoKeyCheck ==
    /\ m_pc = "start"
    /\ IF ~(env.NOTION_PAGE_ID \/ env.NOTION_DB_ID)
       THEN m_pc' = "exit_1" /\ UNCHANGED translator
       ELSE m_pc' = "configured" /\ translator' = env.GEMINI_API_KEY
    /\ UNCHANGED <<net, aggVars, batchVars, optVars, srcVars, env, papers, summaries,
                   used_model, save_i, attempts, failed>>

\* MainConfig with a translator whatever GEMINI_API_KEY is.
MainConfigAlwaysTranslator ==
    /\ m_pc = "start"
    /\ IF ~(env.NOTION_PAGE_ID \/ env.NOTION_DB_ID)
       THEN m_pc' = "exit_1" /\ UNCHANGED translator
       ELSE IF ~env.NOTION_API_KEY
            THEN m_pc' = "crashed" /\ UNCHANGED translator
            ELSE m_pc' = "configured" /\ translator' = TRUE
    /\ UNCHANGED <<net, aggVars, batchVars, optVars, srcVars, env, papers, summaries,
                   used_model, save_i, attempts, failed>>

\* Lines 10-32: read the configuration.  Without NOTION_PAGE_ID and
\* NOTION_DB_ID main calls sys.exit(1); without NOTION_API_KEY NotionManager()
\* raises ValueError, which nothing catches; without GEMINI_API_KEY
\* GeminiTranslator() raises and translator is None.  No request is sent.
MainConfig ==
    /\ m_pc = "start"
    /\ IF ~(env.NOTION_PAGE_ID \/ env.NOTION_DB_ID)
       THEN m_pc' = "exit_1" /\ UNCHANGED translator
       ELSE IF ~env.NOTION_API_KEY
            THEN m_pc' = "crashed" /\ UNCHANGED translator
            ELSE m_pc' = "configured" /\ translator' = env.GEMINI_API_KEY
    /\ UNCHANGED <<net, aggVars, batchVars, optVars, srcVars, env, papers, summaries,
                   used_model, save_i, attempts, failed>>

\* MainCreateDatabase with the search started before any database exists.
MainCreateDatabaseSkipped ==
    /\ m_pc = "configured"
    /\ m_pc' = "searching"
    /\ a_pc' = "start"
    /\ UNCHANGED <<net, query, max_results, a_calls, ss_papers, arxiv_papers, ddg_papers,
                   all_papers, seen_titles, a_result, batchVars, optVars, srcVars, env,
                   translator, papers, summaries, used_model, save_i, attempts, failed>>

\* Lines 34-49 with create_database (notion_client_wrapper.py 81-126): the
\* database is created (a failure ends main with sys.exit(1)), its properties
\* are added (a failure there is only printed), and search_all_sources is
\* called.
MainCreateDatabase ==
    /\ m_pc = "configured"
    /\ \/ /\ net' = Append(net, "notion:databases.create")
          /\ m_pc' = "exit_1"
          /\ UNCHANGED a_pc
       \/ /\ net' = net \o <<"notion:databases.create", "notion:data_sources.update">>
          /\ m_pc' = "searching"
          /\ a_pc' = "start"
    /\ UNCHANGED <<query, max_results, a_calls, ss_papers, arxiv_papers, ddg_papers, all_papers,
                   seen_titles, a_result, batchVars, optVars, srcVars, env, translator,
                   papers, summaries, used_model, save_i, attempts, failed>>

\* Line 49 when search_all_sources raises: nothing in main catches it.
MainSearchRaised ==
    /\ m_pc = "searching"
    /\ a_pc \in {"raised_title", "raised_arxiv"}
    /\ m_pc' = "crashed"
    /\ UNCHANGED <<net, aggVars, batchVars, optVars, srcVars, env, translator, papers,
                   summaries, used_model, save_i, attempts, failed>>

\* Lines 49-87 when search_all_sources returns: no papers ends main; with a
\* translator analyze_papers_batch is called; without one every paper gets
\* the placeholder summary.
MainAfterSearch ==
    /\ m_pc = "searching"
    /\ a_pc = "returned"
    /\ papers' = a_result
    /\ \/ /\ a_result = << >>
          /\ m_pc' = "returned"
          /\ UNCHANGED <<summaries, b_pc, papers_data>>
       \/ /\ a_result # << >>
          /\ translator
          /\ papers_data' = [k \in DOMAIN a_result |-> [title |-> a_result[k].title]]
          /\ b_pc' = "start"
          /\ m_pc' = "summarizing"
          /\ UNCHANGED summaries
       \/ /\ a_result # << >>
          /\ ~translator
          /\ summaries' = PlaceholderSummaries(a_result)
          /\ m_pc' = "saving"
          /\ UNCHANGED <<b_pc, papers_data>>
    /\ UNCHANGED <<net, aggVars, optVars, srcVars, attempt, outcomes, response_text, last_used_model,
                   b_results, b_used_model, env, translator, used_model, save_i,
                   attempts, failed>>

\* Lines 71-85: take what analyze_papers_batch returned; had it raised, the
\* handler of line 82 gives every paper the placeholder summary.
MainAfterSummarize ==
    /\ m_pc = "summarizing"
    /\ b_pc \in {"returned", "raised"}
    /\ IF b_pc = "returned"
       THEN summaries' = b_results /\ used_model' = b_used_model
       ELSE summaries' = PlaceholderSummaries(papers) /\ UNCHANGED used_model
    /\ m_pc' = "saving"
    /\ UNCHANGED <<net, aggVars, batchVars, optVars, srcVars, env, translator, papers,
                   save_i, attempts, failed>>

\* The arguments of the add_paper call for paper i (lines 95-121).
AddPaperCall(i) ==
    LET p == papers[i]
        summary == IF i <= Len(summaries) THEN summaries[i] ELSE PlaceholderSummary
    IN [index |-> i,
        title |-> p.title,
        short_summary_kr |-> summary.short_summary,
        detailed_summary_kr |-> summary.detailed_summary,
        architecture_desc |-> summary.architecture,
        llm_model |-> used_model,
        source |-> SourceOf(p)]

\* The requests of one add_paper call (notion_client_wrapper.py 129-208):
\* ensure_database (which catches what it raises), pages.create, and, when the
\* page was created and there is long-form content, add_page_content (which
\* catches what it raises).
AddPaperRequests(call, ok) ==
    <<"notion:ensure_database", "notion:pages.create">>
    \o (IF ok /\ (call.detailed_summary_kr # "" \/ call.architecture_desc # "")
        THEN <<"notion:blocks.children.append">>
        ELSE << >>)

\* MainSavePaper with a save loop that a failed add_paper ends.
MainSavePaperAbortOnFailure ==
    /\ m_pc = "saving"
    /\ save_i < Len(papers)
    /\ LET call == AddPaperCall(save_i + 1) IN
       \E ok \in BOOLEAN :
          /\ net' = net \o AddPaperRequests(call, ok)
          /\ attempts' = Append(attempts, call)
          /\ failed' = IF ok THEN failed ELSE failed \cup {save_i + 1}
          /\ save_i' = IF ok THEN save_i + 1 ELSE Len(papers)
    /\ UNCHANGED <<aggVars, batchVars, optVars, srcVars, m_pc, env, translator, papers,
                   summaries, used_model>>

\* Lines 90-124: one pass of the save loop.  add_paper either creates the page
\* or raises; main catches what it raises and goes on with the next paper.
MainSavePaper ==
    /\ m_pc = "saving"
    /\ save_i < Len(papers)
    /\ LET call == AddPaperCall(save_i + 1) IN
       \E ok \in BOOLEAN :
          /\ net' = net \o AddPaperRequests(call, ok)
          /\ attempts' = Append(attempts, call)
          /\ failed' = IF ok THEN failed ELSE failed \cup {save_i + 1}
          /\ save_i' = save_i + 1
    /\ UNCHANGED <<aggVars, batchVars, optVars, srcVars, m_pc, env, translator, papers,
                   summaries, used_model>>

\* Line 126: the loop is over and main returns.
MainFinish ==
    /\ m_pc = "saving"
    /\ save_i = Len(papers)
    /\ m_pc' = "returned"
    /\ UNCHANGED <<net, aggVars, batchVars, optVars, srcVars, env, translator, papers,
                   summaries, used_model, save_i, attempts, failed>>

MainNext ==
    \/ MainConfig
    \/ MainCreateDatabase
    \/ AggSearchSemanticScholar(MainSSResponses)
    \/ AggSearchArxiv(MainArxivResponses)
    \/ AggSearchDuckDuckGo(MainDDGResponses)
    \/ AggReturn
    \/ MainSearchRaised
    \/ MainAfterSearch
    \/ BatchStart
    \/ GenPrimaryAttempt(MainTexts)
    \/ GenFallback(MainTexts)
    \/ BatchParse
    \/ MainAfterSummarize
    \/ MainSavePaper
    \/ MainFinish

SpecMain == MainInit /\ [][MainNext]_vars

\* ------------------------------------------------------------------------
\* SemanticScholarSearch.search_papers
\* ------------------------------------------------------------------------
SSInit ==
    /\ net = << >>
    /\ max_results = DefaultMaxResults
    /\ query = StrQuery("q1")
    /\ AggIdle("idle")
    /\ BatchIdle("idle")
    /\ OptIdle("idle")
    /\ MainIdle("idle")
    /\ SrcIdle("requesting", "idle")

\* Lines 40-84, one iteration of the retry loop: the GET of line 42 and what
\* follows it.  The response is a 429 (sleep, next iteration), or the request,
\* raise_for_status or json() raises (except clause), or the items of a good
\* response are parsed (break, or the except clause when an item raises).
SSRequest(ItemSeqs) ==
    /\ s_pc = "requesting"
    /\ net' = Append(net, "http:semantic_scholar")
    /\ \/ /\ s_sleeps' = Append(s_sleeps, SSSleepSeconds)
          /\ s_attempt' = s_attempt + 1
          /\ s_pc' = IF SSLoopContinues(s_attempt) THEN "requesting" ELSE "returned"
          /\ UNCHANGED <<s_papers, s_failed>>
       \/ /\ s_failed' = "request"
          /\ s_pc' = SSAfterRaise(s_attempt)
          /\ UNCHANGED <<s_papers, s_sleeps, s_attempt>>
       \/ \E items \in ItemSeqs :
            LET r == SSParseItems(items, s_papers) IN
            /\ s_papers' = r.papers
            /\ s_failed' = IF r.raised THEN "parse" ELSE "none"
            /\ s_pc' = "returned"
            /\ UNCHANGED <<s_sleeps, s_attempt>>
    /\ UNCHANGED <<aggVars, batchVars, optVars, mainVars, d_pc, d_papers, d_failed>>

SSNext == SSRequest(SSItemSeqs)

SpecSS == SSInit /\ [][SSNext]_vars

\* search_papers runs on once called: nothing it waits for is left out of
\* SSRequest (the GET has a timeout of 10 seconds, the sleep is 2 seconds).
SpecSSLive == SSInit /\ [][SSNext]_vars /\ WF_vars(SSNext)

\* ------------------------------------------------------------------------
\* DuckDuckGoSearch.search_papers, and search_all_sources with the two
\* search_papers methods run step by step
\* ------------------------------------------------------------------------
\* Lines 22-49: the search and the loop over its results; what raises inside
\* is caught at line 46.  Called from search_all_sources line 59.
DDGSearch(ResultSeqs) ==
    /\ d_pc = "start"
    /\ a_pc = "arxiv_merged"
    /\ net' = Append(net, "http:duckduckgo")
    /\ \/ /\ d_failed' = TRUE
          /\ UNCHANGED d_papers
       \/ \E results \in ResultSeqs :
            LET r == DDGLoop(results, d_papers, max_results) IN
            /\ d_papers' = r.papers
            /\ d_failed' = r.raised
    /\ d_pc' = "returned"
    /\ UNCHANGED <<aggVars, batchVars, optVars, mainVars,
                   s_pc, s_attempt, s_papers, s_sleeps, s_failed>>

SrcSSItemSeqs ==
    {<< >>, <<SSItem("A", FALSE)>>, <<SSItem("A", FALSE), SSItem(NoField, TRUE)>>,
     <<SSItem(NoneTitle, FALSE)>>, <<SSItem("", FALSE), SSItem(NoField, FALSE)>>}

SrcArxivResponses == {<< >>, <<ArxivPaper("a")>>, <<ArxivPaper("B")>>}

SrcDDGResultSeqs ==
    SeqsUpTo({DDGResult("C", TRUE), DDGResult("A", TRUE), DDGResult("", TRUE),
              DDGResult("B", FALSE), DDGResult(NoneTitle, TRUE)}, MaxUpstream)

SrcInit ==
    /\ net = << >>
    /\ max_results \in {1, DefaultMaxResults}
    /\ query = StrQuery("q1")
    /\ AggIdle("start")
    /\ BatchIdle("idle")
    /\ OptIdle("idle")
    /\ MainIdle("idle")
    /\ SrcIdle("requesting", "start")

\* multi_source_search.py lines 32-38: search_papers returned to line 32.
SrcMergeSemanticScholar ==
    /\ s_pc = "returned"
    /\ AggSearchSemanticScholar({s_papers})

\* multi_source_search.py lines 59-65: search_papers returned to line 59.
SrcMergeDuckDuckGo ==
    /\ d_pc = "returned"
    /\ AggSearchDuckDuckGo({d_papers})

SrcNext ==
    \/ SSRequest(SrcSSItemSeqs)
    \/ SrcMergeSemanticScholar
    \/ AggSearchArxiv(SrcArxivResponses)
    \/ DDGSearch(SrcDDGResultSeqs)
    \/ SrcMergeDuckDuckGo
    \/ AggReturn

SpecSrc == SrcInit /\ [][SrcNext]_vars

\* ------------------------------------------------------------------------
\* Properties of search_all_sources (checked under SpecAgg)
\* ------------------------------------------------------------------------
\* The records the three collaborators returned, in call order.
Inputs == ss_papers \o arxiv_papers \o ddg_papers

\* Source priority of a record: Semantic Scholar, then arXiv, then DuckDuckGo.
Priority(r) ==
    CASE r.source = "Semantic Scholar" -> 1
      [] r.source = NoField -> 2
      [] OTHER -> 3

InOutput(r) == \E k \in DOMAIN a_result : a_result[k] = r

IsPrefix(s, t) == Len(s) <= Len(t) /\ \A k \in DOMAIN s : s[k] = t[k]

Min(S) == CHOOSE x \in S : \A y \in S : x <= y

\* C1 as stated (for max_results >= 1): of any two records of different
\* sources whose titles are equal ignoring case, the returned list contains
\* exactly one, the one of the higher-priority source.
C1_Original ==
    (a_pc = "returned" /\ max_results >= 1) =>
        \A i, j \in DOMAIN Inputs :
            ( /\ lower(Inputs[i].title) = lower(Inputs[j].title)
              /\ Priority(Inputs[i]) < Priority(Inputs[j]) )
            => (InOutput(Inputs[i]) /\ ~InOutput(Inputs[j]))

\* C1 (amended): for every lower-cased title some source returned, the returned
\* list holds at most one record with that title; a record it holds is the
\* first record with that title of the highest-priority source that returned
\* the title; and it holds one whenever the merged list fits in max_results.
C1_Dedup ==
    a_pc = "returned" =>
        \A i \in DOMAIN Inputs :
            LET key == lower(Inputs[i].title)
                same == {j \in DOMAIN Inputs : lower(Inputs[j].title) = key}
                out == {k \in DOMAIN a_result : lower(a_result[k].title) = key}
                best == Min({Priority(Inputs[j]) : j \in same})
            IN  /\ Cardinality(out) <= 1
                /\ \A k \in out :
                      /\ Priority(a_result[k]) = best
                      /\ a_result[k] = Inputs[Min(same)]
                /\ (max_results >= Cardinality({lower(Inputs[j].title) :
                                                 j \in DOMAIN Inputs}))
                      => Cardinality(out) = 1

\* C1 witness: two sources returned case variants of one title, and the
\* returned list holds the higher-priority one only.
C1_Witness ==
    /\ a_pc = "returned"
    /\ \E i, j \in DOMAIN Inputs :
          /\ Inputs[i].title # Inputs[j].title
          /\ lower(Inputs[i].title) = lower(Inputs[j].title)
          /\ Priority(Inputs[i]) < Priority(Inputs[j])
          /\ InOutput(Inputs[i])
          /\ ~InOutput(Inputs[j])

\* C2 as stated: when search_arxiv_papers raises, search_all_sources does not
\* raise (it goes on to return the merge of the other two sources).
C2_PartialFailure == a_pc # "raised_arxiv"

\* C3: when no two input records share a lower-cased title, the returned list
\* is the concatenation Semantic Scholar, arXiv, DuckDuckGo (each in the order
\* its source returned), cut at the truncation point.
C3_OrderPreserved ==
    ( /\ a_pc = "returned"
      /\ \A i, j \in DOMAIN Inputs :
            i # j => lower(Inputs[i].title) # lower(Inputs[j].title) )
    => /\ IsPrefix(a_result, Inputs)
       /\ (max_results >= Len(Inputs) => a_result = Inputs)
       /\ (max_results \in 0..Len(Inputs) => Len(a_result) = max_results)

\* C3 witness: Semantic Scholar returned B then A, arXiv returned C, no title
\* repeats, and the whole concatenation B, A, C was returned.
C3_Witness ==
    /\ a_pc = "returned"
    /\ Len(ss_papers) = 2 /\ Len(arxiv_papers) = 1 /\ Len(ddg_papers) = 0
    /\ ss_papers[1].title = "B"
    /\ \A i, j \in DOMAIN Inputs :
          i # j => lower(Inputs[i].title) # lower(Inputs[j].title)
    /\ a_result = Inputs

\* C4: for max_results >= 0 the returned list has at most max_results
\* records, and none for max_results = 0.
C4_Truncation ==
    (a_pc = "returned" /\ max_results >= 0) =>
        /\ Len(a_result) <= max_results
        /\ (max_results = 0 => a_result = << >>)

\* C4 witness: more unique papers were merged than max_results allows.
C4_Witness ==
    /\ a_pc = "returned"
    /\ max_results >= 0
    /\ Len(all_papers) > max_results
    /\ Len(a_result) = max_results

\* C5: Semantic Scholar returns A, B; arXiv returns a; DuckDuckGo returns C;
\* with max_results = 10 the result is A, B (Semantic Scholar), C (DuckDuckGo).
C5_Scenario ==
    ( /\ a_pc = "returned"
      /\ max_results = 10
      /\ ss_papers = <<SSPaper("A"), SSPaper("B")>>
      /\ arxiv_papers = <<ArxivPaper("a")>>
      /\ ddg_papers = <<DDGPaper("C")>> )
    => a_result = <<SSPaper("A"), SSPaper("B"), DDGPaper("C")>>

\* C5 witness: the scenario's run has returned.
C5_Witness ==
    /\ a_pc = "returned"
    /\ max_results = 10
    /\ ss_papers = <<SSPaper("A"), SSPaper("B")>>
    /\ arxiv_papers = <<ArxivPaper("a")>>
    /\ ddg_papers = <<DDGPaper("C")>>
    /\ Len(a_result) = 3

\* ------------------------------------------------------------------------
\* Properties of analyze_papers_batch (checked under SpecBatch)
\* ------------------------------------------------------------------------
IsPlaceholder(summary) == summary \in {PlaceholderSummary, BatchFailedSummary}

\* The items of the response when it is a JSON array (fenced or not).
ResponseItems ==
    IF ~response_text.empty /\ response_text.json_type = "array"
    THEN response_text.items
    ELSE << >>

\* The items of the response that name input record k (paper_index = k).
GivenFor(k) ==
    {j \in DOMAIN ResponseItems :
        /\ ResponseItems[j].kind = "dict"
        /\ ResponseItems[j].index_kind = "int"
        /\ ResponseItems[j].paper_index = k}

Max(S) == CHOOSE x \in S : \A y \in S : x >= y

\* C6: analyze_papers_batch never raises; the list it returns has one summary
\* per input record; an empty (failed), unparseable or non-array response
\* gives a placeholder at every position.
C6_SameLength ==
    /\ b_pc # "raised"
    /\ b_pc = "returned" =>
          /\ Len(b_results) = Len(papers_data)
          /\ (response_text.empty \/ response_text.json_type # "array")
                => \A k \in DOMAIN b_results : IsPlaceholder(b_results[k])

\* C6 witness: both models failed on a batch of two papers and two
\* placeholders were returned.
C6_Witness ==
    /\ b_pc = "returned"
    /\ Len(papers_data) = 2
    /\ response_text.empty
    /\ Len(net) = Retries + 1
    /\ b_results = <<BatchFailedSummary, BatchFailedSummary>>

WellFormedItems ==
    \A j \in DOMAIN ResponseItems :
        ResponseItems[j].kind = "dict" /\ ResponseItems[j].index_kind # "bad"

C8_AllKeys ==
    /\ o_pc # "raised"
    /\ o_pc = "returned" => SourceKeys \subseteq DOMAIN o_result

\* ------------------------------------------------------------------------
\* Properties of main (checked under SpecMain)
\* ------------------------------------------------------------------------
\* C9: add_paper is called once per aggregated record, in aggregated order,
\* whichever calls fail; no failure ends the run: once the save loop is
\* entered main neither exits nor crashes, and when it has returned every
\* record has had exactly one call.
C9_PersistEach ==
    /\ \A k \in DOMAIN attempts :
          /\ k <= Len(papers)
          /\ attempts[k].index = k
          /\ attempts[k].title = papers[k].title
    /\ failed \subseteq DOMAIN attempts
    /\ Len(attempts) = save_i
    /\ m_pc \in {"exit_1", "crashed"} => attempts = << >> /\ papers = << >>
    /\ m_pc = "returned" => Len(attempts) = Len(papers)

\* C9 witness: main returned after three add_paper calls of which the first
\* and the last failed.
C9_Witness ==
    /\ m_pc = "returned"
    /\ Len(papers) = 3
    /\ Len(attempts) = 3
    /\ failed = {1, 3}

\* Required configuration is missing: neither NOTION_PAGE_ID nor NOTION_DB_ID,
\* or no NOTION_API_KEY.
ConfigMissing ==
    \/ ~(env.NOTION_PAGE_ID \/ env.NOTION_DB_ID)
    \/ ~env.NOTION_API_KEY

\* C10: with required configuration missing, main halts (sys.exit(1) or the
\* uncaught ValueError) and never sends a request.
C10_FatalBeforeNetwork ==
    ConfigMissing =>
        /\ net = << >>
        /\ m_pc \in {"start", "exit_1", "crashed"}

\* C10 witness: the parent page is configured, the API key is not, and main
\* has halted with nothing sent.
C10_Witness ==
    /\ env.NOTION_PAGE_ID
    /\ ~env.NOTION_API_KEY
    /\ m_pc = "crashed"
    /\ net = << >>

\* ------------------------------------------------------------------------
\* Further properties of main (checked under SpecMain)
\* ------------------------------------------------------------------------
CollaboratorNames == {"Semantic Scholar", "arXiv", "DuckDuckGo"}

\* C11 as stated: every record search_all_sources returned has a source field
\* naming a collaborator, and so has every Source value main persists.
C11_SourceNamed ==
    /\ \A k \in DOMAIN papers : papers[k].source \in CollaboratorNames
    /\ \A k \in DOMAIN attempts : attempts[k].source \in CollaboratorNames

\* The model whose answer analyze_papers_batch parsed: none when the response
\* text is empty (every request failed, or no request was made).
Producer ==
    IF response_text.empty THEN "none"
    ELSE IF \E i \in DOMAIN net : net[i] = "ai:fallback" THEN FallbackModelName
    ELSE PrimaryModelName

\* C13 as stated: the Generated By value of every add_paper call is the
\* primary model's name only if the primary model answered, the fallback's
\* only if the fallback answered, and no model's name when no model answered.
C13_GeneratedBy ==
    \A k \in DOMAIN attempts :
        /\ attempts[k].llm_model = PrimaryModelName => Producer = PrimaryModelName
        /\ attempts[k].llm_model = FallbackModelName => Producer = FallbackModelName
        /\ Producer = "none" =>
              attempts[k].llm_model \notin {PrimaryModelName, FallbackModelName}

IsAIRequest(r) == r \in {"ai:primary", "ai:fallback", "ai:query_optimizer"}

\* C17: without GEMINI_API_KEY main sends no AI request, calls add_paper once
\* per aggregated record, in order, and every call carries the "no summary"
\* placeholder, an empty detailed summary and architecture note, and
\* Generated By "none".
C17_NoCredential ==
    ~env.GEMINI_API_KEY =>
        /\ \A i \in DOMAIN net : ~IsAIRequest(net[i])
        /\ \A k \in DOMAIN attempts :
              /\ attempts[k].index = k
              /\ attempts[k].short_summary_kr = NoSummary
              /\ attempts[k].detailed_summary_kr = ""
              /\ attempts[k].architecture_desc = ""
              /\ attempts[k].llm_model = "none"
        /\ (m_pc = "returned" => Len(attempts) = Len(papers))

\* C17 witness: main returned without the credential after saving three
\* records.
C17_Witness ==
    /\ ~env.GEMINI_API_KEY
    /\ m_pc = "returned"
    /\ Len(papers) = 3
    /\ Len(attempts) = 3
    /\ failed = {}

\* ------------------------------------------------------------------------
\* Further properties of search_all_sources (checked under SpecAgg)
\* ------------------------------------------------------------------------
\* The lower-cased titles of a list of records.
LowerTitles(ps) == {lower(ps[k].title) : k \in DOMAIN ps}

\* C14: for max_results >= 0 the returned list is exactly the first
\* max_results records of the merged list (all of it when it is shorter), so
\* when Semantic Scholar alone returned at least max_results distinct titles
\* every returned record is a Semantic Scholar record.
C14_FirstRecords ==
    (a_pc = "returned" /\ max_results >= 0) =>
        /\ IsPrefix(a_result, all_papers)
        /\ Len(a_result) =
              (IF max_results < Len(all_papers) THEN max_results ELSE Len(all_papers))
        /\ (Cardinality(LowerTitles(ss_papers)) >= max_results
              => \A k \in DOMAIN a_result : a_result[k].source = "Semantic Scholar")

\* C14 witness: Semantic Scholar filled the cap and a later source's title no
\* one else returned was merged and then cut.
C14_Witness ==
    /\ a_pc = "returned"
    /\ max_results = 2
    /\ Cardinality(LowerTitles(ss_papers)) = 2
    /\ \E k \in DOMAIN arxiv_papers :
          lower(arxiv_papers[k].title) \notin LowerTitles(ss_papers)
    /\ Len(all_papers) = 3
    /\ a_result = ss_papers

\* C20: at every step of search_all_sources seen_titles is the set of
\* lower-cased titles of all_papers, no two records of all_papers share a
\* lower-cased title, and each record of all_papers is the first record with
\* its lower-cased title in call order (Semantic Scholar, arXiv, DuckDuckGo,
\* each in the order returned); while nothing has raised, every title returned
\* so far is in seen_titles.
C20_SeenTitles ==
    /\ seen_titles = LowerTitles(all_papers)
    /\ \A i, j \in DOMAIN all_papers :
          i # j => lower(all_papers[i].title) # lower(all_papers[j].title)
    /\ \A k \in DOMAIN all_papers :
          \E i \in DOMAIN Inputs :
              /\ Inputs[i] = all_papers[k]
              /\ \A j \in 1..(i - 1) :
                    Inputs[j].title # NoneTitle
                    /\ lower(Inputs[j].title) # lower(all_papers[k].title)
    /\ a_pc \notin {"raised_title", "raised_arxiv"} => LowerTitles(Inputs) = seen_titles

\* C20 witness: Semantic Scholar returned the same title twice (in two
\* spellings) and only the first was kept.
C20_Witness ==
    /\ a_pc = "ss_merged"
    /\ ss_papers = <<SSPaper("a"), SSPaper("A")>>
    /\ all_papers = <<SSPaper("a")>>
    /\ seen_titles = {"a"}

\* search_all_sources has ended: it returned, or the exception of a
\* collaborator left it.
AggEnded == a_pc \in {"returned", "raised_arxiv"}

\* C18 as stated: a call of search_all_sources that has ended invoked the
\* collaborators exactly once each, in the order Semantic Scholar, arXiv,
\* DuckDuckGo; calls are made in that order at every point; and with a single
\* query string every call received that string.
C18_CallsOnceEach ==
    /\ IsPrefix([k \in DOMAIN a_calls |-> a_calls[k].source],
                <<"semantic_scholar", "arxiv", "duckduckgo">>)
    /\ AggEnded => Len(a_calls) = 3
    /\ query.is_str => \A k \in DOMAIN a_calls : a_calls[k].query = query.s

\* ------------------------------------------------------------------------
\* Properties of SemanticScholarSearch.search_papers (checked under SpecSS)
\* ------------------------------------------------------------------------
\* The number of GET requests search_papers sent.
SSRequestCount == Cardinality({i \in DOMAIN net : net[i] = "http:semantic_scholar"})

\* C15 as stated: a request that raised is retried, so once search_papers has
\* returned after a raised request it has sent more requests than the
\* rate-limited ones and the raised one, and it returns the empty list.
C15_Original ==
    (s_pc = "returned" /\ s_failed = "request") =>
        /\ SSRequestCount > Len(s_sleeps) + 1
        /\ s_papers = << >>

\* C15 amended: a request that raises is not retried; it is the last request
\* search_papers sends, nothing is slept after it, and the empty list is
\* returned.  Only 429 responses are retried.
C15_NoRetryAfterRaise ==
    s_failed = "request" =>
        /\ s_pc = "returned"
        /\ SSRequestCount = Len(s_sleeps) + 1
        /\ SSRequestCount <= SSAttempts
        /\ s_papers = << >>

\* C15 witness: the first request was rate-limited, the second raised, and
\* search_papers returned after those two requests.
C15_Witness ==
    /\ s_pc = "returned"
    /\ s_failed = "request"
    /\ SSRequestCount = 2
    /\ s_sleeps = <<SSSleepSeconds>>

\* C16: search_papers sends at most 3 requests, sleeps 2 seconds once per 429
\* response and never otherwise, returns the empty list when all three
\* requests were rate-limited, and always returns.
C16_RateLimitTerminates ==
    /\ [](/\ SSRequestCount <= SSAttempts
          /\ \A k \in DOMAIN s_sleeps : s_sleeps[k] = SSSleepSeconds
          /\ Len(s_sleeps) = s_attempt
          /\ Len(s_sleeps) <= SSRequestCount
          /\ (Len(s_sleeps) = SSAttempts => s_pc = "returned" /\ s_papers = << >>))
    /\ <>(s_pc = "returned")

\* C16 witness: three requests, each answered 429, then the return of the
\* empty list.
C16_Witness ==
    /\ s_pc = "returned"
    /\ SSRequestCount = 3
    /\ s_sleeps = <<SSSleepSeconds, SSSleepSeconds, SSSleepSeconds>>
    /\ s_papers = << >>
    /\ s_failed = "none"

\* ------------------------------------------------------------------------
\* Properties of the collaborators under search_all_sources (checked under
\* SpecSrc)
\* ------------------------------------------------------------------------
\* A non-empty string.
IsTitle(t) == t \notin {NoneTitle, ""}

\* C12 as stated: every record a collaborator built has a non-empty string
\* title, and the aggregator's title.lower() never raises.
C12_TitleNonEmpty ==
    /\ \A k \in DOMAIN s_papers : IsTitle(s_papers[k].title)
    /\ \A k \in DOMAIN arxiv_papers : IsTitle(arxiv_papers[k].title)
    /\ \A k \in DOMAIN d_papers : IsTitle(d_papers[k].title)
    /\ a_pc # "raised_title"

\* C19 as stated: when something raised inside the Semantic Scholar or the
\* DuckDuckGo search_papers, the method still returned, and a call of
\* search_all_sources that has ended queried all three sources, returned, and
\* kept every title the sources returned.
C19_Isolation ==
    /\ s_failed # "none" => s_pc = "returned"
    /\ d_failed => d_pc = "returned"
    /\ ((s_failed # "none" \/ d_failed)
         /\ a_pc \in {"returned", "raised_arxiv", "raised_title"}) =>
           /\ a_pc = "returned"
           /\ Len(a_calls) = 3
           /\ LowerTitles(Inputs) = LowerTitles(all_papers)

\* ------------------------------------------------------------------------
\* Properties of _generate_with_retry (checked under SpecGen)
\* ------------------------------------------------------------------------
\* The positions in outcomes of the calls of one model.
CallsOf(model) == {k \in DOMAIN outcomes : outcomes[k].model = model}

\* The number of requests in net of one kind.
RequestCount(kind) == Cardinality({i \in DOMAIN net : net[i] = kind})

\* C21: _generate_with_retry sends at most Retries requests to the primary
\* model and at most one to the fallback model; the fallback request comes
\* only after Retries primary requests that all failed with a quota error; a
\* primary error of another kind is the last request and the empty string is
\* returned; and the call always comes back to analyze_papers_batch, which
\* returns.
C21_FallbackProtocol ==
    /\ [](/\ RequestCount("ai:primary") = Cardinality(CallsOf("primary"))
          /\ RequestCount("ai:fallback") = Cardinality(CallsOf("fallback"))
          /\ Cardinality(CallsOf("primary")) <= Retries
          /\ Cardinality(CallsOf("fallback")) <= 1
          /\ \A k \in CallsOf("fallback") :
                /\ k = Retries + 1
                /\ \A j \in 1..(k - 1) :
                      outcomes[j] = [model |-> "primary", result |-> "quota"]
          /\ \A k \in CallsOf("primary") :
                outcomes[k].result = "error" =>
                    /\ k = Len(outcomes)
                    /\ response_text = EmptyText
                    /\ b_pc \notin {"primary", "fallback"}
          /\ b_pc = "fallback" => Cardinality(CallsOf("primary")) = Retries)
    /\ <>(b_pc \in {"returned", "raised"})

\* C21 witness: three primary requests failed with a quota error, the
\* fallback model answered, and analyze_papers_batch returned.
C21_Witness ==
    /\ b_pc = "returned"
    /\ Len(outcomes) = Retries + 1
    /\ \A j \in 1..Retries : outcomes[j] = [model |-> "primary", result |-> "quota"]
    /\ outcomes[Retries + 1] = [model |-> "fallback", result |-> "ok"]
    /\ last_used_model = FallbackModelName

\* ------------------------------------------------------------------------
\* main when the search finds nothing (checked under SpecMain)
\* ------------------------------------------------------------------------
IsSearchRequest(r) == r \in {"search:semantic_scholar", "search:arxiv", "search:duckduckgo"}

IsPageRequest(r) ==
    r \in {"notion:ensure_database", "notion:pages.create", "notion:blocks.children.append"}

\* search_all_sources returned the empty list to main.
NoRecords == m_pc # "idle" /\ a_pc = "returned" /\ a_result = << >>

\* C22: when search_all_sources returns no records main sends no AI request
\* and no page request, calls add_paper for nothing, and goes from the search
\* straight to its return; the database was created before, since in every
\* run databases.create precedes the first search call.
C22_NoRecords ==
    /\ NoRecords =>
          /\ \A i \in DOMAIN net : ~IsAIRequest(net[i]) /\ ~IsPageRequest(net[i])
          /\ attempts = << >>
          /\ m_pc \in {"searching", "returned"}
          /\ b_pc = "idle"
          /\ \E j \in DOMAIN net : net[j] = "notion:databases.create"
    /\ \A i \in DOMAIN net :
          IsSearchRequest(net[i]) =>
              \E j \in 1..(i - 1) : net[j] = "notion:databases.create"

\* C22 witness: with the AI credential set, the sources returned a record,
\* max_results = 0 cut the list to nothing, and main returned.
C22_Witness ==
    /\ NoRecords
    /\ m_pc = "returned"
    /\ env.GEMINI_API_KEY
    /\ all_papers # << >>
    /\ papers = << >>
    /\ net = <<"notion:databases.create", "notion:data_sources.update",
               "search:semantic_scholar", "search:arxiv", "search:duckduckgo">>

====
